---- MODULE Spec2Model ----
(***************************************************************************)
(* Model of the job scraper: the orchestrator scrape_jobs (src/scraper.py), *)
(* its deduplication, and the per-item parsers of the three source         *)
(* adapters (src/scrapers/).                                               *)
(*                                                                         *)
(* Text values are sequences of one-character strings, so that lower()     *)
(* and strip() are computed character by character.  Python's None is the  *)
(* one-element sequence NoneVal, whose element is not a character.         *)
(***************************************************************************)
EXTENDS Integers, Sequences, FiniteSets, TLC

\* ---------------------------------------------------------------- bounds
MaxSites == 2      \* longest caller-supplied site_name list
MaxOut == 2        \* most records one adapter returns in one run
MaxJobs == 3       \* longest list handed to _deduplicate on its own
MaxWanted == 3     \* largest results_wanted handed to one adapter's scrape
MaxPage == 2       \* most records parsed from one upstream page
MaxArray == 3      \* longest array the bare-JSON endpoint returns

\* ---------------------------------------------------------------- text
NoneVal == <<"None">>
IsNone(x) == x = NoneVal

Whitespace == {" "}

LowerChar(c) ==
  CASE c = "A" -> "a"
    [] c = "B" -> "b"
    [] c = "X" -> "x"
    [] c = "N" -> "n"
    [] OTHER -> c

\* str.lower()
Lower(s) == [k \in 1..Len(s) |-> LowerChar(s[k])]

RECURSIVE LStrip(_)
LStrip(s) ==
  IF s # <<>> /\ Head(s) \in Whitespace THEN LStrip(Tail(s)) ELSE s

RECURSIVE RStrip(_)
RStrip(s) ==
  IF s # <<>> /\ s[Len(s)] \in Whitespace
  THEN RStrip(SubSeq(s, 1, Len(s) - 1))
  ELSE s

\* str.strip()
Strip(s) == RStrip(LStrip(s))

\* ---------------------------------------------------------------- scraper.py
\* SCRAPERS: the site names that map to an adapter class
SCRAPERS == {"indeed", "linkedin", "remoteok"}

\* list(SCRAPERS.keys()), in insertion order
ScraperKeys == <<"indeed", "linkedin", "remoteok">>

IsKnown(s) == s \in SCRAPERS

\* invalid_sites = [s for s in site_name if s not in SCRAPERS]
FirstInvalidOnly(names) ==
  IF names # <<>> /\ ~IsKnown(names[1]) THEN <<names[1]>> ELSE <<>>

InvalidSites(names) == SelectSeq(names, LAMBDA s : ~IsKnown(s))

\* fingerprint = (job.title.lower().strip(), job.company.lower().strip())
FingerprintCaseSensitive(job) == <<Strip(job.title), Strip(job.company)>>

Fingerprint(job) == <<Strip(Lower(job.title)), Strip(Lower(job.company))>>

\* .lower() on None raises AttributeError
FingerprintRaises(job) == IsNone(job.title) \/ IsNone(job.company)

\* the loop of _deduplicate: seen is the set of fingerprints met so far,
\* unique_jobs the records kept so far
RECURSIVE DedupLoop(_, _, _)
DedupLoop(rest, seen, unique_jobs) ==
  IF rest = <<>> THEN unique_jobs
  ELSE LET job == Head(rest)
           fingerprint == Fingerprint(job)
       IN IF fingerprint \notin seen
          THEN DedupLoop(Tail(rest), seen \cup {fingerprint}, Append(unique_jobs, job))
          ELSE DedupLoop(Tail(rest), seen, unique_jobs)

\* a loop that removes from the list it iterates over: the record after a
\* dropped duplicate is never examined
RECURSIVE DedupSkipLoop(_, _, _)
DedupSkipLoop(rest, seen, unique_jobs) ==
  IF rest = <<>> THEN unique_jobs
  ELSE LET job == Head(rest)
           fingerprint == Fingerprint(job)
       IN IF fingerprint \notin seen
          THEN DedupSkipLoop(Tail(rest), seen \cup {fingerprint}, Append(unique_jobs, job))
          ELSE IF Tail(rest) = <<>> THEN unique_jobs
               ELSE DedupSkipLoop(Tail(Tail(rest)), seen,
                                  Append(unique_jobs, Head(Tail(rest))))

\* keeps the last record of each fingerprint instead of the first
RECURSIVE DedupKeepLast(_)
DedupKeepLast(jobs) ==
  IF jobs = <<>> THEN <<>>
  ELSE LET job == Head(jobs)
           later == {Fingerprint(Tail(jobs)[k]) : k \in 1..Len(Tail(jobs))}
       IN IF Fingerprint(job) \in later
          THEN DedupKeepLast(Tail(jobs))
          ELSE <<job>> \o DedupKeepLast(Tail(jobs))

DeduplicateSkipping(jobs) == DedupSkipLoop(jobs, {}, <<>>)

DeduplicateKeepLast(jobs) == DedupKeepLast(jobs)

\* _deduplicate(jobs), for a list on which no fingerprint raises
Deduplicate(jobs) == DedupLoop(jobs, {}, <<>>)

\* _deduplicate raises as soon as the loop reaches a record whose title or
\* company is None; the loop visits every record, so it raises iff one exists
DeduplicateRaises(jobs) == \E k \in 1..Len(jobs) : FingerprintRaises(jobs[k])


\* ---------------------------------------------------------------- records
\* JobPost (models.py), reduced to the fields the orchestrator reads or the
\* documentation speaks of; origin is a history field: the position in
\* site_name of the adapter run that produced the record
NoDate == 0       \* date_posted = None; the dates that are present are 1, 2, ...
NoSalary == 0 - 1 \* salary_min / salary_max = None

JobPost(title, company, job_url, source, date_posted) ==
  [title |-> title, company |-> company, job_url |-> job_url,
   source |-> source, date_posted |-> date_posted,
   salary_min |-> NoSalary, salary_max |-> NoSalary, origin |-> 0]

Url == <<"u">>

\* records each adapter can return (its own site_name as source)
SiteRecords(site) ==
  CASE site = "indeed" ->
         { JobPost(<<"A", "b">>, <<"X">>, Url, "indeed", 2),
           JobPost(<<"b">>, NoneVal, Url, "indeed", NoDate) }
    [] site = "linkedin" ->
         { JobPost(<<" ", "a", "b", " ">>, <<"x", " ">>, Url, "linkedin", 1),
           JobPost(<<"b">>, <<"X">>, Url, "linkedin", 2) }
    [] site = "remoteok" ->
         { JobPost(<<"B">>, <<"X">>, Url, "remoteok", 2),
           JobPost(<<"a", " ", "b">>, <<"X">>, Url, "remoteok", 1) }
    [] OTHER -> {}

SeqsUpTo(S, n) == UNION {[1..m -> S] : m \in 0..n}

Tag(jobs, k) == [p \in 1..Len(jobs) |-> [jobs[p] EXCEPT !.origin = k]]

\* what one call of _run_scraper(site, ...) can do: SCRAPERS[site] raises
\* KeyError for an unknown site; otherwise the adapter is constructed and
\* its scrape returns a list of records or raises
Returned(jobs) == [raised |-> FALSE, jobs |-> jobs]
Raised == [raised |-> TRUE, jobs |-> <<>>]
NoOutcome == [raised |-> FALSE, jobs |-> <<>>]

RunScraperOutcomes(site, k) ==
  IF ~IsKnown(site) THEN {Raised}
  ELSE {Raised} \cup {Returned(Tag(js, k)) : js \in SeqsUpTo(SiteRecords(site), MaxOut)}

\* all_jobs.extend(jobs)
ExtendReversed(all, jobs) == all \o [p \in 1..Len(jobs) |-> jobs[Len(jobs) + 1 - p]]

Extend(all, jobs) == all \o jobs

\* lines 105-110 and 117-122: try: jobs = ...; all_jobs.extend(jobs)
\* except Exception: the failure is logged and all_jobs is left as it was
CollectedResetOnFailure(all, o) == IF o.raised THEN <<>> ELSE Extend(all, o.jobs)

Collected(all, o) == IF o.raised THEN all ELSE Extend(all, o.jobs)

\* the order in which the sequential loop visits site_name
LoopOrderReversed(names) == [p \in 1..Len(names) |-> Len(names) + 1 - p]

LoopOrder(names) == [p \in 1..Len(names) |-> p]

\* ---------------------------------------------------------------- state
VARIABLES
  site_arg,      \* the site_name argument: a list of names, or None
  run_parallel,  \* the run_parallel argument
  site_name,     \* the local site_name after the default is applied
  pc,            \* where scrape_jobs is
  error,         \* the exception scrape_jobs raised to its caller
  all_jobs,      \* the merged list
  i,             \* number of iterations the sequential loop has finished
  fut,           \* per position of site_name: state of that adapter run
  out,           \* per position of site_name: what the run did
  invoked,       \* history: positions of site_name in the order the loop called them
  result,        \* the list scrape_jobs returned
  jobs,          \* a list handed to _deduplicate on its own
  unique_jobs,   \* what _deduplicate returned for jobs
  again,         \* what _deduplicate returned for unique_jobs
  dpc,           \* how far the stand-alone deduplication has come
  adapter,       \* the adapter whose per-item parser is applied
  item,          \* one upstream item (a JSON object or a markup card)
  parsed,        \* what the parser returned: <<>> for None, else <<record>>
  ppc,           \* whether the parser has run
  s_site,        \* the adapter whose scrape runs
  results_wanted,\* the results_wanted argument of scrape
  query,         \* the search_term argument of scrape
  spc,           \* where scrape is
  s_jobs,        \* scrape: the list jobs
  page,          \* scrape: page (commercial API) or start (HTML board)
  reqs,          \* history: the page parameter of every _scrape_page call
  attempts,      \* history: the answers to the HTTP GETs of the current request
  waited,        \* seconds of 429 cooldown slept during the current request
  via_get,       \* whether the current request was made through _get
  resp,          \* what the current request gave the adapter
  api_data,      \* bare-JSON adapter: data, the decoded upstream array
  matched,       \* bare-JSON adapter: the list matched
  examined,      \* history: how many candidates the filter loop looked at
  s_ret,         \* what scrape returned
  l_sites,       \* termination view of scrape_jobs: site_name after validation
  l_parallel,    \* termination view: run_parallel
  l_wanted,      \* termination view: results_wanted
  l_pc,          \* termination view: where scrape_jobs is
  l_runs,        \* per position of l_sites: state, accumulated count, page requests of that run
  l_i,           \* termination view: iterations the sequential loop has finished
  l_total        \* termination view: len(all_jobs)

vars == <<site_arg, run_parallel, site_name, pc, error, all_jobs, i, fut, out,
          invoked, result, jobs, unique_jobs, again, dpc, adapter, item,
          parsed, ppc, s_site, results_wanted, query, spc, s_jobs, page, reqs,
          attempts, waited, via_get, resp, api_data, matched, examined, s_ret,
          l_sites, l_parallel, l_wanted, l_pc, l_runs, l_i, l_total>>

aggVars == <<site_arg, run_parallel, site_name, pc, error, all_jobs, i, fut,
             out, invoked, result>>
dedupVars == <<jobs, unique_jobs, again, dpc>>
parseVars == <<adapter, item, parsed, ppc>>
scrapeVars == <<s_site, results_wanted, query, spc, s_jobs, page, reqs,
                attempts, waited, via_get, resp, api_data, matched, examined, s_ret>>
liveVars == <<l_sites, l_parallel, l_wanted, l_pc, l_runs, l_i, l_total>>

Unknown == {"monster", "bogus"}
Names == SCRAPERS \cup Unknown

NoError == [kind |-> "none", sites |-> <<>>]

AggIdle ==
  /\ site_arg = NoneVal /\ run_parallel = FALSE /\ site_name = <<>>
  /\ pc = "idle" /\ error = NoError /\ all_jobs = <<>> /\ i = 0
  /\ fut = <<>> /\ out = <<>> /\ invoked = <<>> /\ result = <<>>

DedupIdle ==
  /\ jobs = <<>> /\ unique_jobs = <<>> /\ again = <<>> /\ dpc = "idle"

ParseIdle ==
  /\ adapter = "none" /\ item = <<>> /\ parsed = <<>> /\ ppc = "idle"

LiveIdle ==
  /\ l_sites = <<>> /\ l_parallel = FALSE /\ l_wanted = 0 /\ l_pc = "idle"
  /\ l_runs = <<>> /\ l_i = 0 /\ l_total = 0

ScrapeIdle ==
  /\ s_site = "none" /\ results_wanted = 0 /\ query = <<>> /\ spc = "idle"
  /\ s_jobs = <<>> /\ page = 0 /\ reqs = <<>> /\ attempts = <<>> /\ waited = 0
  /\ via_get = FALSE /\ resp = "none" /\ api_data = <<>> /\ matched = <<>>
  /\ examined = 0 /\ s_ret = <<>>

\* a call scrape_jobs(search_term, location, site_name, results_wanted, run_parallel)
Init ==
  /\ site_arg \in {NoneVal} \cup SeqsUpTo(Names, MaxSites)
  /\ run_parallel \in BOOLEAN
  /\ site_name = <<>>
  /\ pc = "start"
  /\ error = NoError
  /\ all_jobs = <<>>
  /\ i = 0
  /\ fut = <<>>
  /\ out = <<>>
  /\ invoked = <<>>
  /\ result = <<>>
  /\ DedupIdle
  /\ ParseIdle
  /\ ScrapeIdle
  /\ LiveIdle

\* lines 73-84: the default, then the validation of the names
Validate ==
  /\ pc = "start"
  /\ LET names == IF IsNone(site_arg) THEN ScraperKeys ELSE site_arg
         invalid_sites == InvalidSites(names)
     IN /\ site_name' = names
        /\ IF invalid_sites # <<>>
           THEN /\ pc' = "raised"
                /\ error' = [kind |-> "UnknownSites", sites |-> invalid_sites]
                /\ UNCHANGED <<fut, out>>
           ELSE /\ pc' = "validated"
                /\ error' = error
                /\ fut' = [k \in 1..Len(names) |-> "pending"]
                /\ out' = [k \in 1..Len(names) |-> NoOutcome]
  /\ UNCHANGED <<site_arg, run_parallel, all_jobs, i, invoked, result>>
  /\ UNCHANGED <<dedupVars, parseVars, scrapeVars, liveVars>>

\* lines 86-100 / 112-116: ThreadPoolExecutor(max_workers=len(site_name))
\* raises ValueError when max_workers is 0; otherwise every run is submitted
EnterMode ==
  /\ pc = "validated"
  /\ \/ /\ run_parallel
        /\ Len(site_name) = 0
        /\ pc' = "raised"
        /\ error' = [kind |-> "MaxWorkers", sites |-> <<>>]
     \/ /\ run_parallel
        /\ Len(site_name) > 0
        /\ pc' = "collect"
        /\ error' = error
     \/ /\ ~run_parallel
        /\ pc' = "loop"
        /\ error' = error
  /\ UNCHANGED <<site_arg, run_parallel, site_name, all_jobs, i, fut, out,
                 invoked, result>>
  /\ UNCHANGED <<dedupVars, parseVars, scrapeVars, liveVars>>

\* a pool worker picks up a submitted run and calls _run_scraper
WorkerStart(k) ==
  /\ pc = "collect"
  /\ fut[k] = "pending"
  /\ fut' = [fut EXCEPT ![k] = "running"]
  /\ UNCHANGED <<site_arg, run_parallel, site_name, pc, error, all_jobs, i,
                 out, invoked, result>>
  /\ UNCHANGED <<dedupVars, parseVars, scrapeVars, liveVars>>

\* the worker's _run_scraper returns or raises; the future is done
WorkerFinish(k) ==
  /\ pc = "collect"
  /\ fut[k] = "running"
  /\ \E o \in RunScraperOutcomes(site_name[k], k) :
       out' = [out EXCEPT ![k] = o]
  /\ fut' = [fut EXCEPT ![k] = "done"]
  /\ UNCHANGED <<site_arg, run_parallel, site_name, pc, error, all_jobs, i,
                 invoked, result>>
  /\ UNCHANGED <<dedupVars, parseVars, scrapeVars, liveVars>>

\* lines 103-110: as_completed yields a finished future; its result is
\* appended, or its exception is logged
Collect(k) ==
  /\ pc = "collect"
  /\ fut[k] = "done"
  /\ fut' = [fut EXCEPT ![k] = "collected"]
  /\ all_jobs' = Collected(all_jobs, out[k])
  /\ UNCHANGED <<site_arg, run_parallel, site_name, pc, error, i, out,
                 invoked, result>>
  /\ UNCHANGED <<dedupVars, parseVars, scrapeVars, liveVars>>

\* as_completed is exhausted and the with block is left
ExitPool ==
  /\ pc = "collect"
  /\ \A k \in 1..Len(site_name) : fut[k] = "collected"
  /\ pc' = "dedup"
  /\ UNCHANGED <<site_arg, run_parallel, site_name, error, all_jobs, i, fut,
                 out, invoked, result>>
  /\ UNCHANGED <<dedupVars, parseVars, scrapeVars, liveVars>>

\* line 118: the loop calls _run_scraper for the next site
SeqCall ==
  /\ pc = "loop"
  /\ i < Len(site_name)
  /\ LET k == LoopOrder(site_name)[i + 1]
     IN /\ fut[k] = "pending"
        /\ fut' = [fut EXCEPT ![k] = "running"]
        /\ invoked' = Append(invoked, k)
  /\ UNCHANGED <<site_arg, run_parallel, site_name, pc, error, all_jobs, i,
                 out, result>>
  /\ UNCHANGED <<dedupVars, parseVars, scrapeVars, liveVars>>

\* lines 118-122: the call returns (the list is appended) or raises (logged)
SeqReturn ==
  /\ pc = "loop"
  /\ i < Len(site_name)
  /\ LET k == LoopOrder(site_name)[i + 1]
     IN /\ fut[k] = "running"
        /\ \E o \in RunScraperOutcomes(site_name[k], k) :
             /\ out' = [out EXCEPT ![k] = o]
             /\ all_jobs' = Collected(all_jobs, o)
        /\ fut' = [fut EXCEPT ![k] = "collected"]
  /\ i' = i + 1
  /\ UNCHANGED <<site_arg, run_parallel, site_name, pc, error, invoked, result>>
  /\ UNCHANGED <<dedupVars, parseVars, scrapeVars, liveVars>>

\* the for loop is exhausted
SeqExit ==
  /\ pc = "loop"
  /\ i = Len(site_name)
  /\ pc' = "dedup"
  /\ UNCHANGED <<site_arg, run_parallel, site_name, error, all_jobs, i, fut,
                 out, invoked, result>>
  /\ UNCHANGED <<dedupVars, parseVars, scrapeVars, liveVars>>

\* lines 124-128: all_jobs = _deduplicate(all_jobs); return all_jobs
DedupAndReturn ==
  /\ pc = "dedup"
  /\ IF DeduplicateRaises(all_jobs)
     THEN /\ pc' = "raised"
          /\ error' = [kind |-> "AttributeError", sites |-> <<>>]
          /\ UNCHANGED <<all_jobs, result>>
     ELSE /\ pc' = "returned"
          /\ all_jobs' = Deduplicate(all_jobs)
          /\ result' = Deduplicate(all_jobs)
          /\ error' = error
  /\ UNCHANGED <<site_arg, run_parallel, site_name, i, fut, out, invoked>>
  /\ UNCHANGED <<dedupVars, parseVars, scrapeVars, liveVars>>

Next ==
  \/ Validate
  \/ EnterMode
  \/ \E k \in 1..Len(site_name) : WorkerStart(k)
  \/ \E k \in 1..Len(site_name) : WorkerFinish(k)
  \/ \E k \in 1..Len(site_name) : Collect(k)
  \/ ExitPool
  \/ SeqCall
  \/ SeqReturn
  \/ SeqExit
  \/ DedupAndReturn

Spec == Init /\ [][Next]_vars


\* ---------------------------------------------------------------- claims on scrape_jobs
RECURSIVE IsSubseq(_, _)
IsSubseq(s, t) ==
  IF s = <<>> THEN TRUE
  ELSE IF t = <<>> THEN FALSE
  ELSE IF Head(s) = Head(t) THEN IsSubseq(Tail(s), Tail(t))
  ELSE IsSubseq(s, Tail(t))

FromRun(s, k) == SelectSeq(s, LAMBDA r : r.origin = k)

RECURSIVE ConcatOuts(_)
ConcatOuts(n) == IF n = 0 THEN <<>> ELSE ConcatOuts(n - 1) \o out[n].jobs

Runs == 1..Len(site_name)

HasUnknown ==
  /\ ~IsNone(site_arg)
  /\ \E k \in 1..Len(site_arg) : site_arg[k] \notin {"indeed", "linkedin", "remoteok"}

\* C1: a site_name list with at least one unknown name makes scrape_jobs
\* raise the validation error, which names every unknown source of the list
\* (and no known one), before any adapter run exists, is started or has
\* contributed a record, in either mode and wherever the unknown name stands.
C1_UnknownSiteFailsFast ==
  HasUnknown =>
    /\ pc \in {"start", "raised"}
    /\ fut = <<>> /\ out = <<>> /\ invoked = <<>> /\ all_jobs = <<>>
    /\ pc = "raised" =>
         /\ error.kind = "UnknownSites"
         /\ \A k \in 1..Len(site_arg) :
              site_arg[k] \notin {"indeed", "linkedin", "remoteok"}
                => \E m \in 1..Len(error.sites) : error.sites[m] = site_arg[k]
         /\ \A m \in 1..Len(error.sites) :
              error.sites[m] \notin {"indeed", "linkedin", "remoteok"}

C1_Witness ==
  /\ pc = "raised" /\ error.kind = "UnknownSites"
  /\ run_parallel
  /\ Len(site_arg) = 2
  /\ site_arg[1] = "indeed" /\ site_arg[2] = "monster"
  /\ error.sites = <<"monster">>

\* C3: in both modes and for every completion order, the merged list holds
\* exactly the records of the runs that were collected without raising, in
\* each run's own order, and nothing for a run that raised; a failure stops
\* no other run (when the merge is complete every run has been collected);
\* with two runs, one raising and one returning, the result is the
\* deduplicated list of the run that returned.
C3_FailuresIsolated ==
  /\ pc \in {"loop", "collect", "dedup"} =>
       /\ \A k \in Runs :
            FromRun(all_jobs, k) =
              IF fut[k] = "collected" /\ ~out[k].raised THEN out[k].jobs ELSE <<>>
       /\ \A p \in 1..Len(all_jobs) : all_jobs[p].origin \in Runs
  /\ pc = "dedup" => \A k \in Runs : fut[k] = "collected"
  /\ (pc = "returned" /\ Len(site_name) = 2) =>
       \A k \in Runs :
         (out[k].raised /\ ~out[3 - k].raised) => result = Deduplicate(out[3 - k].jobs)

C3_Witness ==
  /\ pc = "returned" /\ run_parallel
  /\ Len(site_name) = 2
  /\ out[1].raised /\ ~out[2].raised
  /\ Len(out[2].jobs) = 2
  /\ result = out[2].jobs

\* C4 (as claimed): with known names only, scrape_jobs never raises: the
\* unknown-site validation error is the only error it surfaces; and when
\* every run raised or returned nothing the returned list is empty.
C4_OnlyUnknownSitesRaise ==
  /\ pc = "raised" => error.kind = "UnknownSites"
  /\ (pc = "returned" /\ \A k \in Runs : out[k].jobs = <<>>) => result = <<>>

\* C5: the sequential loop calls the adapters in the order of site_name, one
\* at a time (a run is begun only when every earlier run has been collected),
\* and when no two merged records share a fingerprint the result is the
\* concatenation of the runs' outputs in that order.
C5_SequentialOrder ==
  ~run_parallel =>
    /\ \A p \in 1..Len(invoked) : invoked[p] = p
    /\ \A k \in 1..Len(fut) :
         fut[k] # "pending" => \A j \in 1..(k - 1) : fut[j] = "collected"
    /\ Cardinality({k \in 1..Len(fut) : fut[k] = "running"}) <= 1
    /\ pc = "returned" =>
         /\ Len(invoked) = Len(site_name)
         /\ (\A p, q \in 1..Len(ConcatOuts(Len(site_name))) :
               p < q => <<Strip(Lower(ConcatOuts(Len(site_name))[p].title)),
                          Strip(Lower(ConcatOuts(Len(site_name))[p].company))>>
                        # <<Strip(Lower(ConcatOuts(Len(site_name))[q].title)),
                            Strip(Lower(ConcatOuts(Len(site_name))[q].company))>>)
             => result = ConcatOuts(Len(site_name))

C5_Witness ==
  /\ ~run_parallel /\ pc = "returned"
  /\ Len(site_name) = 2
  /\ Len(out[1].jobs) = 2 /\ Len(out[2].jobs) = 1
  /\ result = out[1].jobs \o out[2].jobs

\* C6: in concurrent mode, whatever the completion order, the records of the
\* final list that one run contributed stand in the order of that run's own
\* output (and so do those of the merged list before deduplication).
C6_IntraAdapterOrder ==
  run_parallel =>
    /\ pc \in {"collect", "dedup"} =>
         \A k \in Runs : IsSubseq(FromRun(all_jobs, k), out[k].jobs)
    /\ pc = "returned" =>
         \A k \in Runs : IsSubseq(FromRun(result, k), out[k].jobs)

C6_Witness ==
  /\ run_parallel /\ pc = "returned"
  /\ Len(site_name) = 2
  /\ Len(result) = 3
  /\ result[1].origin = 2 /\ result[2].origin = 2 /\ result[3].origin = 1
  /\ FromRun(result, 2) = out[2].jobs

Dated(s) == SelectSeq(s, LAMBDA r : r.date_posted # NoDate)

\* C10 (as claimed): the returned list has no two records with the same
\* fingerprint and is ordered by date_posted (oldest first or newest first).
C10_DeduplicatedAndSortedByDate ==
  pc = "returned" =>
    /\ \A p, q \in 1..Len(result) :
         p < q => Fingerprint(result[p]) # Fingerprint(result[q])
    /\ \/ \A p, q \in 1..Len(Dated(result)) :
            p < q => Dated(result)[p].date_posted <= Dated(result)[q].date_posted
       \/ \A p, q \in 1..Len(Dated(result)) :
            p < q => Dated(result)[p].date_posted >= Dated(result)[q].date_posted


\* ---------------------------------------------------------------- _deduplicate on its own
\* records a caller can hand to _deduplicate: title and company are str
\* (models.py), in every mix of letter case and surrounding whitespace
DedupTitles == { <<"A", "b">>, <<" ", "a", "b", " ">>, <<"a", " ", "b">>, <<"b">> }
DedupCompanies == { <<"X">>, <<"x", " ">> }
DedupSources == {"indeed", "linkedin"}

DedupRecords ==
  { JobPost(t, c, Url, s, NoDate) : t \in DedupTitles, c \in DedupCompanies, s \in DedupSources }

InitDedup ==
  /\ AggIdle
  /\ ParseIdle
  /\ ScrapeIdle
  /\ LiveIdle
  /\ jobs = <<>>
  /\ unique_jobs = <<>>
  /\ again = <<>>
  /\ dpc = "build"

\* the caller builds the input list
AddJob(r) ==
  /\ dpc = "build"
  /\ Len(jobs) < MaxJobs
  /\ jobs' = Append(jobs, r)
  /\ UNCHANGED <<unique_jobs, again, dpc>>
  /\ UNCHANGED <<aggVars, parseVars, scrapeVars, liveVars>>

\* unique_jobs = _deduplicate(jobs)
RunDedup ==
  /\ dpc = "build"
  /\ unique_jobs' = Deduplicate(jobs)
  /\ dpc' = "done"
  /\ UNCHANGED <<jobs, again>>
  /\ UNCHANGED <<aggVars, parseVars, scrapeVars, liveVars>>

\* again = _deduplicate(unique_jobs)
RunDedupAgain ==
  /\ dpc = "done"
  /\ again' = Deduplicate(unique_jobs)
  /\ dpc' = "twice"
  /\ UNCHANGED <<jobs, unique_jobs>>
  /\ UNCHANGED <<aggVars, parseVars, scrapeVars, liveVars>>

NextDedup ==
  \/ \E r \in DedupRecords : AddJob(r)
  \/ RunDedup
  \/ RunDedupAgain

SpecDedup == InitDedup /\ [][NextDedup]_vars

\* the fingerprint as the documentation states it
Key(r) == <<Strip(Lower(r.title)), Strip(Lower(r.company))>>

\* the records of js from position k on that no earlier record of js matches
RECURSIVE FirstOccurrences(_, _)
FirstOccurrences(js, k) ==
  IF k > Len(js) THEN <<>>
  ELSE (IF \A j \in 1..(k - 1) : Key(js[j]) # Key(js[k]) THEN <<js[k]>> ELSE <<>>)
       \o FirstOccurrences(js, k + 1)

\* C2: _deduplicate returns the input with exactly those records removed
\* that have an earlier record of the same fingerprint (whatever the
\* sources), the others in their input order.
C2_FirstOccurrenceKept ==
  dpc \in {"done", "twice"} =>
    /\ unique_jobs = FirstOccurrences(jobs, 1)
    /\ IsSubseq(unique_jobs, jobs)

C2_Witness ==
  /\ dpc = "done"
  /\ Len(jobs) = 3
  /\ Key(jobs[1]) # Key(jobs[2]) /\ Key(jobs[3]) = Key(jobs[1])
  /\ jobs[3].source # jobs[1].source
  /\ unique_jobs = <<jobs[1], jobs[2]>>

\* two characters that are equal or the two cases of one letter
SameLetter(c, d) ==
  \/ c = d
  \/ {c, d} \in {{"a", "A"}, {"b", "B"}, {"x", "X"}}

\* s without its leading and trailing blanks, by position
Core(s) ==
  LET inner == {k \in 1..Len(s) : s[k] # " "}
  IN IF inner = {} THEN <<>>
     ELSE SubSeq(s, CHOOSE k \in inner : \A m \in inner : k <= m,
                    CHOOSE k \in inner : \A m \in inner : k >= m)

\* s and t differ only in letter case and in leading or trailing whitespace
DifferOnlyInCaseAndEdges(s, t) ==
  /\ Len(Core(s)) = Len(Core(t))
  /\ \A k \in 1..Len(Core(s)) : SameLetter(Core(s)[k], Core(t)[k])

Alike(r1, r2) ==
  /\ DifferOnlyInCaseAndEdges(r1.title, r2.title)
  /\ DifferOnlyInCaseAndEdges(r1.company, r2.company)

\* C7: two records whose titles and whose companies differ only in letter
\* case and surrounding whitespace have the same fingerprint, and
\* _deduplicate keeps at most one of them: the first of the input.
C7_FingerprintInsensitive ==
  /\ \A p, q \in 1..Len(jobs) :
       Alike(jobs[p], jobs[q]) => Fingerprint(jobs[p]) = Fingerprint(jobs[q])
  /\ dpc \in {"done", "twice"} =>
       /\ \A p, q \in 1..Len(unique_jobs) :
            p < q => ~Alike(unique_jobs[p], unique_jobs[q])
       /\ \A q \in 1..Len(jobs) :
            \E p \in 1..q : /\ Alike(jobs[p], jobs[q])
                            /\ \E m \in 1..Len(unique_jobs) : unique_jobs[m] = jobs[p]
                            /\ \A j \in 1..(p - 1) : ~Alike(jobs[j], jobs[q])

C7_Witness ==
  /\ dpc = "done"
  /\ Len(jobs) = 2
  /\ jobs[1].title = <<"A", "b">> /\ jobs[1].company = <<"X">>
  /\ jobs[2].title = <<" ", "a", "b", " ">> /\ jobs[2].company = <<"x", " ">>
  /\ unique_jobs = <<jobs[1]>>

\* C8: _deduplicate applied to its own output returns that output unchanged.
C8_Idempotent ==
  dpc = "twice" => again = unique_jobs

C8_Witness ==
  /\ dpc = "twice"
  /\ Len(jobs) = 3
  /\ Len(unique_jobs) = 2
  /\ again = unique_jobs


\* ---------------------------------------------------------------- the adapters' per-item parsers
Absent == <<"Absent">>   \* a key the JSON object lacks, an element the card lacks
NoHref == <<"NoHref">>   \* an anchor element without href attribute

\* a value Python treats as false: a missing key read with .get, None, ""
Falsy(v) == v \in {Absent, NoneVal, <<>>}

\* data.get(key, default)
Get(v, default) == IF v = Absent THEN default ELSE v

UnknownText == <<"U", "n", "k", "n", "o", "w", "n">>
IndeedDefaultUrl == <<"i", ".", "c">>     \* "https://www.indeed.com"
RemoteOKDefaultUrl == <<"r", ".", "c">>   \* "https://remoteok.com"

Digits == {"0", "1", "2", "3", "4", "5", "6", "7", "8", "9"}

DigitValue(c) ==
  CASE c = "0" -> 0 [] c = "1" -> 1 [] c = "2" -> 2 [] c = "3" -> 3
    [] c = "4" -> 4 [] c = "5" -> 5 [] c = "6" -> 6 [] c = "7" -> 7
    [] c = "8" -> 8 [] OTHER -> 9

\* float(v) raises ValueError / TypeError unless v is a numeral
FloatRaises(v) == v = <<>> \/ \E k \in 1..Len(v) : v[k] \notin Digits

RECURSIVE Float(_)
Float(v) ==
  IF v = <<>> THEN 0 ELSE 10 * Float(SubSeq(v, 1, Len(v) - 1)) + DigitValue(v[Len(v)])

\* float(salary) if salary else None
SalaryOf(v) == IF Falsy(v) THEN NoSalary ELSE Float(v)
SalaryRaises(v) == ~Falsy(v) /\ FloatRaises(v)

\* href.split("?")[0]
RECURSIVE SplitQuery(_)
SplitQuery(href) ==
  IF href = <<>> \/ Head(href) = "?" THEN <<>>
  ELSE <<Head(href)>> \o SplitQuery(Tail(href))

\* IndeedScraper._parse_job
IndeedParseJob(data) ==
  LET title == Get(data.job_title, UnknownText)
      company == Get(data.employer_name, UnknownText)
      job_url == IF ~Falsy(data.job_apply_link) THEN data.job_apply_link
                 ELSE IF ~Falsy(data.job_url) THEN data.job_url
                 ELSE IndeedDefaultUrl
  IN IF SalaryRaises(data.job_min_salary) \/ SalaryRaises(data.job_max_salary)
     THEN <<>>
     ELSE << [JobPost(title, company, job_url, "indeed", NoDate) EXCEPT
                !.salary_min = SalaryOf(data.job_min_salary),
                !.salary_max = SalaryOf(data.job_max_salary)] >>

\* LinkedInScraper._parse_job_card; get_text(strip=True) is the trimmed text
LinkedInParseJobCard(card) ==
  IF card.title_elem = Absent THEN <<>>
  ELSE IF card.link_elem = NoHref THEN <<>>
  ELSE LET title == Strip(card.title_elem)
           company == IF card.company_elem = Absent THEN UnknownText
                      ELSE Strip(card.company_elem)
           job_url == IF card.link_elem = Absent THEN <<>>
                      ELSE SplitQuery(card.link_elem)
       IN << JobPost(title, company, job_url, "linkedin", NoDate) >>

\* RemoteOKScraper._parse_job
RemoteOKParseJob(data) ==
  IF Falsy(data.position) THEN <<>>
  ELSE IF SalaryRaises(data.salary_min) \/ SalaryRaises(data.salary_max) THEN <<>>
  ELSE LET title == Get(data.position, UnknownText)
           company == Get(data.company, UnknownText)
           job_url == Get(data.url, RemoteOKDefaultUrl)
       IN << [JobPost(title, company, job_url, "remoteok", NoDate) EXCEPT
                !.salary_min = IF Falsy(data.salary_min) THEN NoSalary
                               ELSE Float(data.salary_min),
                !.salary_max = IF Falsy(data.salary_max) THEN NoSalary
                               ELSE Float(data.salary_max)] >>

\* upstream values
JsonTexts == {Absent, NoneVal, <<>>, <<" ">>, <<"A", "b">>}
JsonLinks == {Absent, NoneVal, <<>>, <<"u">>}
JsonSalaries == {Absent, NoneVal, <<"5", "0">>, <<"a">>}
CardTexts == {Absent, <<>>, <<" ">>, <<" ", "A", "b">>}
CardLinks == {Absent, NoHref, <<"u", "?", "k">>, <<"?", "k">>}

IndeedItems ==
  [job_title : JsonTexts, employer_name : JsonTexts, job_apply_link : JsonLinks,
   job_url : {Absent, <<"u">>}, job_min_salary : JsonSalaries,
   job_max_salary : JsonSalaries]

LinkedInCards ==
  [title_elem : CardTexts, company_elem : CardTexts, link_elem : CardLinks]

RemoteOKItems ==
  [position : JsonTexts, company : JsonTexts, url : JsonLinks,
   salary_min : JsonSalaries, salary_max : JsonSalaries]

ItemsOf(site) ==
  CASE site = "indeed" -> IndeedItems
    [] site = "linkedin" -> LinkedInCards
    [] OTHER -> RemoteOKItems

InitParse ==
  /\ AggIdle
  /\ DedupIdle
  /\ ScrapeIdle
  /\ LiveIdle
  /\ adapter \in SCRAPERS
  /\ item \in ItemsOf(adapter)
  /\ parsed = <<>>
  /\ ppc = "item"

ParseIndeed ==
  /\ ppc = "item" /\ adapter = "indeed"
  /\ parsed' = IndeedParseJob(item)
  /\ ppc' = "parsed"
  /\ UNCHANGED <<adapter, item>>
  /\ UNCHANGED <<aggVars, dedupVars, scrapeVars, liveVars>>

ParseLinkedIn ==
  /\ ppc = "item" /\ adapter = "linkedin"
  /\ parsed' = LinkedInParseJobCard(item)
  /\ ppc' = "parsed"
  /\ UNCHANGED <<adapter, item>>
  /\ UNCHANGED <<aggVars, dedupVars, scrapeVars, liveVars>>

ParseRemoteOK ==
  /\ ppc = "item" /\ adapter = "remoteok"
  /\ parsed' = RemoteOKParseJob(item)
  /\ ppc' = "parsed"
  /\ UNCHANGED <<adapter, item>>
  /\ UNCHANGED <<aggVars, dedupVars, scrapeVars, liveVars>>

NextParse ==
  \/ ParseIndeed
  \/ ParseLinkedIn
  \/ ParseRemoteOK

SpecParse == InitParse /\ [][NextParse]_vars

NonEmptyTrimmed(v) == ~IsNone(v) /\ Strip(v) # <<>>

\* C9 (as claimed): every record a parser returns has a title, a company and
\* a job_url that are non-empty after trimming; an item that would give an
\* empty one produces no record.
C9_RequiredFieldsNonEmpty ==
  (ppc = "parsed" /\ parsed # <<>>) =>
    /\ NonEmptyTrimmed(parsed[1].title)
    /\ NonEmptyTrimmed(parsed[1].company)
    /\ NonEmptyTrimmed(parsed[1].job_url)


\* ---------------------------------------------------------------- one adapter's scrape
JobsPerPage == 25        \* linkedin_scraper.py: jobs_per_page
CooldownSeconds == 60    \* base_scraper.py: time.sleep(60)

Paginating == {"indeed", "linkedin"}

\* page = 1 (commercial API), start = 0 (HTML board)
FirstPage(site) == IF site = "indeed" THEN 1 ELSE 0

\* page += 1, start += jobs_per_page
NextPage(site, p) == IF site = "indeed" THEN p + 1 ELSE p + JobsPerPage

\* while len(jobs) < results_wanted
LoopContinuesAtCount(n, wanted) == n <= wanted

LoopContinues(n, wanted) == n < wanted

\* jobs[:results_wanted], for results_wanted >= 0
Take(s, n) == SubSeq(s, 1, IF n < Len(s) THEN n ELSE Len(s))

\* what one HTTP GET can give: a status, a connection error or a timeout
HttpAnswers == {"200", "429", "403", "500", "connection", "timeout"}

\* raise_for_status() passes
IsOk(a) == a = "200"

\* _get: if response.status_code == 429
RetryOnAnyFailure(a) == a # "200"
NeverRetry(a) == FALSE

ShouldRetry(a) == a = "429"

\* what the adapter gets from a request whose last answer is a
ResponseOf(a) == IF IsOk(a) THEN "response" ELSE "none"

\* the body of a page that was answered: k parsed records, or (commercial
\* API) a body json() rejects, or JSON that is no object with a list "data"
NoBody == [kind |-> "none", n |-> 0]

Bodies(site) ==
  {[kind |-> "records", n |-> k] : k \in 0..MaxPage}
    \cup (IF site = "indeed"
          THEN {[kind |-> "invalid", n |-> 0], [kind |-> "not_object", n |-> 0]}
          ELSE {})

\* _scrape_page raises out of scrape: indeed_scraper.py line 78 and the loop
\* after it are outside the try
PageRaisesOnNoResponse(site, r, body) ==
  r = "none" \/ (site = "indeed" /\ body.kind = "not_object")

PageRaises(site, r, body) ==
  r = "response" /\ site = "indeed" /\ body.kind = "not_object"

\* the list _scrape_page returns for request number j; a record is named by
\* its page and its place on the page
PageJobs(r, body, j) ==
  IF r = "none" \/ body.kind # "records" THEN <<>>
  ELSE [q \in 1..body.n |-> <<j, q>>]

\* ---- the bare-JSON adapter's local filter
\* str(x)
Str(v) == IF v = NoneVal THEN <<"N", "o", "n", "e">> ELSE v

\* " ".join(tags)
RECURSIVE JoinSpace(_)
JoinSpace(tags) ==
  IF tags = <<>> THEN <<>>
  ELSE IF Len(tags) = 1 THEN tags[1]
  ELSE tags[1] \o <<" ">> \o JoinSpace(Tail(tags))

\* str.split(): the maximal runs of non-whitespace
RECURSIVE Split(_)
Split(s) ==
  LET t == LStrip(s)
      ws == {k \in 1..Len(t) : t[k] \in Whitespace}
      n == IF ws = {} THEN Len(t) + 1 ELSE CHOOSE k \in ws : \A m \in ws : k <= m
  IN IF t = <<>> THEN <<>>
     ELSE <<SubSeq(t, 1, n - 1)>> \o Split(SubSeq(t, n, Len(t)))

\* w in s
IsSubstring(w, s) ==
  \E k \in 0..(Len(s) - Len(w)) : SubSeq(s, k + 1, k + Len(w)) = w

\* any(word in title or word in tags for word in search_lower.split())
JobMatches(job_data, words) ==
  LET title == Lower(Str(Get(job_data.position, <<>>)))
      tags == Lower(JoinSpace(Get(job_data.tags, <<>>)))
  IN \E k \in 1..Len(words) : IsSubstring(words[k], title) \/ IsSubstring(words[k], tags)

\* jobs_data = data[1:]
CandidatesWithFirst(d) == d

Candidates(d) == Tail(d)

\* the filter loop of RemoteOKScraper.scrape (lines 144-152)
RECURSIVE MatchLoop(_, _, _, _, _)
MatchLoop(rest, words, wanted, m, seen) ==
  IF rest = <<>> THEN [matched |-> m, examined |-> seen]
  ELSE LET job_data == Head(rest)
           m2 == IF JobMatches(job_data, words) THEN Append(m, job_data) ELSE m
       IN IF Len(m2) >= wanted
          THEN [matched |-> m2, examined |-> seen + 1]
          ELSE MatchLoop(Tail(rest), words, wanted, m2, seen + 1)

\* lines 156-160: parse every matched candidate, keep the records
RECURSIVE ParseMatched(_)
ParseMatched(m) ==
  IF m = <<>> THEN <<>> ELSE RemoteOKParseJob(Head(m)) \o ParseMatched(Tail(m))

ApiElement(position, tags, salary_min) ==
  [position |-> position, tags |-> tags, company |-> <<"X">>, url |-> Url,
   salary_min |-> salary_min, salary_max |-> Absent]

\* elements of the upstream array: the metadata object, a job matched by its
\* title, a job without title matched by a tag, a job with a malformed salary
ApiElements ==
  { [position |-> Absent, tags |-> Absent, company |-> Absent, url |-> Absent,
     salary_min |-> Absent, salary_max |-> Absent],
    ApiElement(<<"A", "b">>, << <<"x">> >>, Absent),
    ApiElement(NoneVal, << <<"b">>, <<"A", "b">> >>, Absent),
    ApiElement(<<"x">>, <<>>, <<"a">>) }

\* what the API request can put in data: nothing (_fetch_all_jobs returned
\* None), or, whatever the status of the answer (it is never looked at), the
\* decoded array or a JSON object (truthy, not sliceable)
ApiBodies(a) ==
  {[kind |-> "none", arr |-> <<>>]}
    \cup (IF a \in {"connection", "timeout"} THEN {}
          ELSE {[kind |-> "object", arr |-> <<>>]}
                 \cup {[kind |-> "array", arr |-> d] : d \in SeqsUpTo(ApiElements, MaxArray)})

Queries == { <<"A", "b">>, <<"x", " ", "o", "n">>, <<" ">>, <<"b", " ", " ", "X">> }

\* a call scraper.scrape(search_term, location, results_wanted)
InitScrape ==
  /\ AggIdle
  /\ DedupIdle
  /\ ParseIdle
  /\ LiveIdle
  /\ s_site \in SCRAPERS
  /\ results_wanted \in 0..MaxWanted
  /\ query \in (IF s_site = "remoteok" THEN Queries ELSE {<<"A", "b">>})
  /\ spc = IF s_site = "remoteok" THEN "homepage" ELSE "loop"
  /\ s_jobs = <<>>
  /\ page = FirstPage(s_site)
  /\ reqs = <<>>
  /\ attempts = <<>>
  /\ waited = 0
  /\ via_get = FALSE
  /\ resp = "none"
  /\ api_data = <<>>
  /\ matched = <<>>
  /\ examined = 0
  /\ s_ret = <<>>

\* the while test of the paginating adapters: either _scrape_page is called
\* for the current page, or the loop ends and jobs[:results_wanted] is returned
LoopTest ==
  /\ spc = "loop"
  /\ s_site \in Paginating
  /\ IF LoopContinues(Len(s_jobs), results_wanted)
     THEN /\ reqs' = Append(reqs, page)
          /\ attempts' = <<>>
          /\ waited' = 0
          /\ via_get' = (s_site = "linkedin")
          /\ resp' = "none"
          /\ spc' = "request"
          /\ s_ret' = s_ret
     ELSE /\ spc' = "done"
          /\ s_ret' = Take(s_jobs, results_wanted)
          /\ UNCHANGED <<reqs, attempts, waited, via_get, resp>>
  /\ UNCHANGED <<s_site, results_wanted, query, s_jobs, page, api_data, matched, examined>>
  /\ UNCHANGED <<aggVars, dedupVars, parseVars, liveVars>>

\* _get, lines 47-63: the delay, then the first session.get
GetFirst ==
  /\ spc = "request"
  /\ via_get
  /\ \E a \in HttpAnswers :
       /\ attempts' = Append(attempts, a)
       /\ IF ShouldRetry(a)
          THEN spc' = "cooldown" /\ resp' = "none"
          ELSE spc' = "settled" /\ resp' = ResponseOf(a)
  /\ UNCHANGED <<s_site, results_wanted, query, s_jobs, page, reqs, waited,
                 via_get, api_data, matched, examined, s_ret>>
  /\ UNCHANGED <<aggVars, dedupVars, parseVars, liveVars>>

\* _get, line 65: time.sleep(60)
Cooldown ==
  /\ spc = "cooldown"
  /\ waited' = waited + CooldownSeconds
  /\ spc' = "retry"
  /\ UNCHANGED <<s_site, results_wanted, query, s_jobs, page, reqs, attempts,
                 via_get, resp, api_data, matched, examined, s_ret>>
  /\ UNCHANGED <<aggVars, dedupVars, parseVars, liveVars>>

\* _get, lines 66-81: the second session.get, raise_for_status, return
GetSecond ==
  /\ spc = "retry"
  /\ \E a \in HttpAnswers :
       /\ attempts' = Append(attempts, a)
       /\ resp' = ResponseOf(a)
  /\ spc' = "settled"
  /\ UNCHANGED <<s_site, results_wanted, query, s_jobs, page, reqs, waited,
                 via_get, api_data, matched, examined, s_ret>>
  /\ UNCHANGED <<aggVars, dedupVars, parseVars, liveVars>>

\* IndeedScraper._scrape_page, lines 55-76: requests.get called directly
DirectGet ==
  /\ spc = "request"
  /\ ~via_get
  /\ s_site = "indeed"
  /\ \E a \in HttpAnswers :
       /\ attempts' = Append(attempts, a)
       /\ resp' = ResponseOf(a)
  /\ spc' = "settled"
  /\ UNCHANGED <<s_site, results_wanted, query, s_jobs, page, reqs, waited,
                 via_get, api_data, matched, examined, s_ret>>
  /\ UNCHANGED <<aggVars, dedupVars, parseVars, liveVars>>

\* the rest of _scrape_page and of the loop body: the page's records are
\* parsed; an empty page ends the loop, otherwise the records are appended
\* and the page parameter advances
PageDone ==
  /\ spc = "settled"
  /\ s_site \in Paginating
  /\ \E body \in (IF resp = "response" THEN Bodies(s_site) ELSE {NoBody}) :
       IF PageRaises(s_site, resp, body)
       THEN /\ spc' = "raised"
            /\ UNCHANGED <<s_jobs, page, s_ret>>
       ELSE LET page_jobs == PageJobs(resp, body, Len(reqs))
            IN IF page_jobs = <<>>
               THEN /\ spc' = "done"
                    /\ s_ret' = Take(s_jobs, results_wanted)
                    /\ UNCHANGED <<s_jobs, page>>
               ELSE /\ spc' = "loop"
                    /\ s_jobs' = s_jobs \o page_jobs
                    /\ page' = NextPage(s_site, page)
                    /\ s_ret' = s_ret
  /\ UNCHANGED <<s_site, results_wanted, query, reqs, attempts, waited,
                 via_get, resp, api_data, matched, examined>>
  /\ UNCHANGED <<aggVars, dedupVars, parseVars, liveVars>>

\* RemoteOKScraper._fetch_all_jobs, lines 63-77: the homepage visit, whose
\* outcome is ignored, then the pause
Homepage ==
  /\ spc = "homepage"
  /\ spc' = "api"
  /\ UNCHANGED <<s_site, results_wanted, query, s_jobs, page, reqs, attempts,
                 waited, via_get, resp, api_data, matched, examined, s_ret>>
  /\ UNCHANGED <<aggVars, dedupVars, parseVars, liveVars>>

\* _fetch_all_jobs, lines 81-125, and scrape, lines 134-138: one session.get
\* on a session of its own; no data returns [], a JSON object makes
\* data[1:] raise
ApiGet ==
  /\ spc = "api"
  /\ \E a \in HttpAnswers :
       /\ attempts' = Append(attempts, a)
       /\ \E body \in ApiBodies(a) :
            /\ resp' = IF body.kind = "none" THEN "none" ELSE "response"
            /\ api_data' = body.arr
            /\ spc' = IF body.kind = "object" THEN "raised"
                      ELSE IF body.arr = <<>> THEN "done"
                      ELSE "filter"
  /\ UNCHANGED <<s_site, results_wanted, query, s_jobs, page, reqs, waited,
                 via_get, matched, examined, s_ret>>
  /\ UNCHANGED <<aggVars, dedupVars, parseVars, liveVars>>

\* scrape, lines 138-163: the local filter, the parsing, the return
FilterAndParse ==
  /\ spc = "filter"
  /\ LET m == MatchLoop(Candidates(api_data), Split(Lower(query)), results_wanted, <<>>, 0)
     IN /\ matched' = m.matched
        /\ examined' = m.examined
        /\ s_jobs' = ParseMatched(m.matched)
        /\ s_ret' = ParseMatched(m.matched)
  /\ spc' = "done"
  /\ UNCHANGED <<s_site, results_wanted, query, page, reqs, attempts, waited,
                 via_get, resp, api_data>>
  /\ UNCHANGED <<aggVars, dedupVars, parseVars, liveVars>>

NextScrape ==
  \/ LoopTest
  \/ GetFirst
  \/ Cooldown
  \/ GetSecond
  \/ DirectGet
  \/ PageDone
  \/ Homepage
  \/ ApiGet
  \/ FilterAndParse

SpecScrape == InitScrape /\ [][NextScrape]_vars

\* ---- claims on one adapter's scrape
\* the page parameter of the j-th request when pages are asked in sequence
PageParam(site, j) == IF site = "indeed" THEN j ELSE (j - 1) * JobsPerPage

\* number of accumulated records that came from request number j
Yield(j) == Cardinality({k \in 1..Len(s_jobs) : s_jobs[k][1] = j})

\* number of accumulated records that came from requests before number j
CountBefore(j) == Cardinality({k \in 1..Len(s_jobs) : s_jobs[k][1] < j})

\* the requests whose page has been handled
Handled == IF spc \in {"request", "cooldown", "retry", "settled"}
           THEN Len(reqs) - 1 ELSE Len(reqs)

AllYielded == \A j \in 1..Handled : Yield(j) >= 1

\* C11: a paginating adapter requests its pages strictly in sequence (1, 2,
\* 3, ... or offsets 0, 25, 50, ...); a page is requested only when every
\* earlier page yielded a record and the count so far is below the requested
\* count, and the scrape ends only when that condition is false.
C11_PagesInSequence ==
  s_site \in Paginating =>
    /\ \A j \in 1..Len(reqs) :
         /\ reqs[j] = PageParam(s_site, j)
         /\ \A h \in 1..(j - 1) : Yield(h) >= 1
         /\ CountBefore(j) < results_wanted
    /\ spc \in {"done", "raised"} => ~(AllYielded /\ Len(s_jobs) < results_wanted)

C11_Witness ==
  /\ s_site = "linkedin"
  /\ reqs = <<0, 25, 50>>
  /\ spc = "done"
  /\ Len(s_ret) = 3

\* the last answer of the current page request, once the request is settled
Last(s) == s[Len(s)]

PageRequestFailed ==
  /\ s_site \in Paginating
  /\ spc = "settled"
  /\ ~IsOk(Last(attempts))

\* C12: when a page request of a paginating adapter fails in transport
\* (connection error, timeout, error status) the scrape does not raise: the
\* page counts as empty, no further page is requested, and the scrape
\* returns the records of the earlier pages unchanged.
C12_FailedPageEndsScrape ==
  [][PageRequestFailed =>
       /\ spc' = "done"
       /\ reqs' = reqs
       /\ s_jobs' = s_jobs
       /\ s_ret' = s_jobs]_vars

C12_Witness ==
  /\ s_site = "indeed"
  /\ Len(reqs) = 2
  /\ attempts = <<"timeout">>
  /\ spc = "done"
  /\ s_ret = <<<<1, 1>>, <<1, 2>>>>

\* a request made through _get whose outcome is final
GetSettled == via_get /\ spc \in {"settled", "loop", "done", "raised"}

\* C13: one call of the shared fetch primitive issues at most two GETs; the
\* second is issued only when the first was answered 429 and only after the
\* 60 second cooldown; a first answer other than 429 is never retried; when
\* the last GET is answered 429 or another error status or fails, the
\* primitive yields no response and there is no third GET.
C13_AtMostOneRetry ==
  via_get =>
    /\ Len(attempts) <= 2
    /\ Len(attempts) = 2 => attempts[1] = "429" /\ waited = CooldownSeconds
    /\ Len(attempts) = 1 /\ waited # 0 => spc = "retry"
    /\ GetSettled /\ attempts[1] = "429" => Len(attempts) = 2
    /\ GetSettled /\ attempts[1] # "429" => Len(attempts) = 1 /\ waited = 0
    /\ GetSettled => (resp = "response" <=> IsOk(Last(attempts)))

C13_Witness ==
  /\ via_get
  /\ attempts = <<"429", "429">>
  /\ waited = CooldownSeconds
  /\ resp = "none"
  /\ spc = "done"

\* a data request of the adapter has been answered for good
DataRequestSettled == attempts # <<>> /\ spc \notin {"cooldown", "retry"}

QueryWords == Split(Lower(query))

QueryMatches(e) == JobMatches(e, QueryWords)

\* every element of the array but the first that matches, in upstream order
AllMatching == SelectSeq(Tail(api_data), QueryMatches)

\* place, among the candidates, of the n-th matching element
PlaceOfMatch(n) ==
  CHOOSE k \in 1..(Len(api_data) - 1) :
    /\ QueryMatches(api_data[k + 1])
    /\ Cardinality({h \in 1..k : QueryMatches(api_data[h + 1])}) = n

FilterRan == s_site = "remoteok" /\ spc = "done" /\ api_data # <<>>

\* C15: for a requested count of at least 1 the bare-JSON adapter's matched
\* set is the first `count` elements, in upstream order, of the array
\* without its first element for which some whitespace-separated word of the
\* lower-cased query is a substring of the lower-cased title or of the
\* lower-cased space-joined tags; the first element is never a candidate and
\* no element after the count-th match is examined.
C15_LocalFilter ==
  FilterRan /\ results_wanted >= 1 =>
    /\ matched = Take(AllMatching, results_wanted)
    /\ examined = IF Len(AllMatching) >= results_wanted
                  THEN PlaceOfMatch(results_wanted)
                  ELSE Len(api_data) - 1

C15_Witness ==
  /\ FilterRan
  /\ results_wanted = 1
  /\ QueryMatches(api_data[1])
  /\ Len(api_data) = 3
  /\ ~QueryMatches(api_data[2])
  /\ matched = <<api_data[3]>>
  /\ examined = 2

\* C17: results_wanted is an upper bound per site: for every results_wanted
\* >= 0 and every upstream content an adapter's scrape returns at most
\* results_wanted records.
C17_AtMostResultsWanted ==
  spc = "done" => Len(s_ret) <= results_wanted

\* ---- claim on the salary fields (specification SpecParse)
ReadsSalary == adapter \in {"indeed", "remoteok"}

MinSalaryIn(d) == IF adapter = "indeed" THEN d.job_min_salary ELSE d.salary_min
MaxSalaryIn(d) == IF adapter = "indeed" THEN d.job_max_salary ELSE d.salary_max
TitleIn(d) == IF adapter = "indeed" THEN d.job_title ELSE d.position
CompanyIn(d) == IF adapter = "indeed" THEN d.employer_name ELSE d.company

\* present, and not text a number can be read from
Malformed(v) == v \notin {Absent, NoneVal} /\ FloatRaises(v)

ValidText(v) == v \notin {Absent, NoneVal} /\ Strip(v) # <<>>

\* what a salary field should become when a malformed value only drops the field
SalaryKept(v) == IF Malformed(v) THEN NoSalary ELSE SalaryOf(v)

\* C16: in the adapters that read salary, an item whose salary_min or
\* salary_max is present but malformed and whose other fields are valid still
\* produces a record, in which only that salary field is absent and the
\* other salary field is kept.
C16_MalformedSalaryDropsFieldOnly ==
  /\ ppc = "parsed"
  /\ ReadsSalary
  /\ ValidText(TitleIn(item))
  /\ ValidText(CompanyIn(item))
  /\ Malformed(MinSalaryIn(item)) \/ Malformed(MaxSalaryIn(item))
  => /\ Len(parsed) = 1
     /\ parsed[1].salary_min = SalaryKept(MinSalaryIn(item))
     /\ parsed[1].salary_max = SalaryKept(MaxSalaryIn(item))

\* ---- claim on the two modes (specification Spec)
KeySet(js) == {Key(js[k]) : k \in 1..Len(js)}

\* what the sequential mode hands to _deduplicate for the same sources and
\* the same per-adapter outputs: the outputs in site_name order
SequentialMerge == ConcatOuts(Len(site_name))

\* C19: for the same selected sources and the same per-adapter outputs the
\* concurrent mode agrees with the sequential mode up to which duplicate
\* wins: whatever the order of worker completion, the concurrent call ends as
\* the sequential one does, and its result has the same set of fingerprints
\* and the same length as the sequential result.
C19_ConcurrentAgreesWithSequential ==
  run_parallel /\ pc \in {"returned", "raised"} /\ error.kind # "UnknownSites" =>
    IF DeduplicateRaises(SequentialMerge)
    THEN pc = "raised"
    ELSE /\ pc = "returned"
         /\ KeySet(result) = KeySet(FirstOccurrences(SequentialMerge, 1))
         /\ Len(result) = Len(FirstOccurrences(SequentialMerge, 1))

\* ---------------------------------------------------------------- termination of scrape_jobs
\* a run of one adapter's scrape: where it is, len(jobs), page requests issued
RunState(st, acc, nreq) == [st |-> st, acc |-> acc, nreq |-> nreq]

\* no run is followed beyond this many page requests
RequestCap == MaxWanted + 1

\* jobs.extend(page_jobs): the accumulated count after a page of n records
CountUnchanged(acc, n) == acc

CountAfterPage(acc, n) == acc + n

\* what scrape hands back from a run that ended with acc accumulated records
ReturnedCount(site, acc) ==
  IF site \in Paginating THEN Len(Take([q \in 1..acc |-> q], l_wanted)) ELSE acc

\* whether the run at position k is the one scrape_jobs works on now
Current(k) ==
  \/ l_parallel /\ l_pc = "collect"
  \/ ~l_parallel /\ l_pc = "loop" /\ k = l_i + 1

\* scrape_jobs after the validation of known names
InitLive ==
  /\ AggIdle
  /\ DedupIdle
  /\ ParseIdle
  /\ ScrapeIdle
  /\ l_sites \in SeqsUpTo(SCRAPERS, MaxSites)
  /\ l_parallel \in BOOLEAN
  /\ l_wanted \in 0..MaxWanted
  /\ l_pc = "validated"
  /\ l_runs = [k \in 1..Len(l_sites) |-> RunState("pending", 0, 0)]
  /\ l_i = 0
  /\ l_total = 0

\* scraper.py lines 86-93 / 112-116
LiveEnterMode ==
  /\ l_pc = "validated"
  /\ l_pc' = IF ~l_parallel THEN "loop"
             ELSE IF Len(l_sites) = 0 THEN "raised"
             ELSE "collect"
  /\ UNCHANGED <<l_sites, l_parallel, l_wanted, l_runs, l_i, l_total>>
  /\ UNCHANGED <<aggVars, dedupVars, parseVars, scrapeVars>>

\* _run_scraper is called (by a pool worker or by the loop) and the
\* adapter's scrape runs to its first upstream request: the paginating
\* adapters test their loop condition first, the bare-JSON adapter asks at once
LiveBegin(k) ==
  /\ Current(k)
  /\ l_runs[k].st = "pending"
  /\ l_runs' = [l_runs EXCEPT ![k] =
       IF l_sites[k] \in Paginating /\ ~LoopContinues(0, l_wanted)
       THEN RunState("ended", 0, 0)
       ELSE RunState("waiting", 0, 1)]
  /\ UNCHANGED <<l_sites, l_parallel, l_wanted, l_pc, l_i, l_total>>
  /\ UNCHANGED <<aggVars, dedupVars, parseVars, scrapeVars>>

\* the outstanding upstream request returns (a response, an error or a
\* timeout; a retried 429 included) and the run goes on to its next request
\* or to its end
LiveAnswer(k) ==
  /\ Current(k)
  /\ l_runs[k].st = "waiting"
  /\ l_runs[k].nreq <= RequestCap
  /\ \/ \E n \in 0..MaxPage :
          LET acc == CountAfterPage(l_runs[k].acc, n)
          IN l_runs' = [l_runs EXCEPT ![k] =
               IF l_sites[k] \in Paginating /\ n > 0 /\ LoopContinues(acc, l_wanted)
               THEN RunState("waiting", acc, l_runs[k].nreq + 1)
               ELSE RunState("ended", acc, l_runs[k].nreq)]
     \/ /\ l_sites[k] # "linkedin"
        /\ l_runs' = [l_runs EXCEPT ![k].st = "failed"]
  /\ UNCHANGED <<l_sites, l_parallel, l_wanted, l_pc, l_i, l_total>>
  /\ UNCHANGED <<aggVars, dedupVars, parseVars, scrapeVars>>

\* scraper.py lines 103-110 / 117-122: the finished run's list is appended
\* to all_jobs, or its exception is logged; the adapter and its locals
\* are gone
LiveCollect(k) ==
  /\ Current(k)
  /\ l_runs[k].st \in {"ended", "failed"}
  /\ l_runs' = [l_runs EXCEPT ![k] = RunState("collected", 0, 0)]
  /\ l_total' = l_total + (IF l_runs[k].st = "failed" THEN 0
                           ELSE ReturnedCount(l_sites[k], l_runs[k].acc))
  /\ l_i' = IF l_parallel THEN l_i ELSE l_i + 1
  /\ UNCHANGED <<l_sites, l_parallel, l_wanted, l_pc>>
  /\ UNCHANGED <<aggVars, dedupVars, parseVars, scrapeVars>>

\* as_completed, or the for loop, is exhausted
LiveExit ==
  /\ \/ l_parallel /\ l_pc = "collect" /\ \A k \in 1..Len(l_sites) : l_runs[k].st = "collected"
     \/ ~l_parallel /\ l_pc = "loop" /\ l_i = Len(l_sites)
  /\ l_pc' = "dedup"
  /\ UNCHANGED <<l_sites, l_parallel, l_wanted, l_runs, l_i, l_total>>
  /\ UNCHANGED <<aggVars, dedupVars, parseVars, scrapeVars>>

\* scraper.py lines 124-128: _deduplicate returns and scrape_jobs returns, or
\* _deduplicate raises on a record without title or company
LiveDedup ==
  /\ l_pc = "dedup"
  /\ \/ l_pc' = "returned"
     \/ l_total > 0 /\ l_pc' = "raised"
  /\ UNCHANGED <<l_sites, l_parallel, l_wanted, l_runs, l_i, l_total>>
  /\ UNCHANGED <<aggVars, dedupVars, parseVars, scrapeVars>>

NextLive ==
  \/ LiveEnterMode
  \/ \E k \in 1..Len(l_sites) : LiveBegin(k)
  \/ \E k \in 1..Len(l_sites) : LiveAnswer(k)
  \/ \E k \in 1..Len(l_sites) : LiveCollect(k)
  \/ LiveExit
  \/ LiveDedup

\* the interpreter keeps executing while a step is possible, and every
\* upstream request eventually returns
SpecLive == InitLive /\ [][NextLive]_vars /\ WF_vars(NextLive)

\* a page request that did not end the run's loop
PageStep(k) ==
  /\ l_runs[k].st = "waiting"
  /\ l_runs'[k].st = "waiting"
  /\ l_runs'[k].nreq > l_runs[k].nreq

\* C18: if every upstream request eventually returns, scrape_jobs eventually
\* ends in both modes, whatever the upstream answers: a paginating adapter's
\* accumulated count strictly increases on every page that does not end its
\* loop, so for results_wanted >= 1 it issues at most results_wanted page
\* requests, and in concurrent mode deduplication and the return come only
\* after every worker has finished and been collected.
C18_ScrapeJobsTerminates ==
  /\ [][\A k \in 1..Len(l_sites) : PageStep(k) => l_runs'[k].acc > l_runs[k].acc]_vars
  /\ [](\A k \in 1..Len(l_sites) :
          l_sites[k] \in Paginating /\ l_wanted >= 1 => l_runs[k].nreq <= l_wanted)
  /\ [](l_pc \in {"dedup", "returned"} => \A k \in 1..Len(l_sites) : l_runs[k].st = "collected")
  /\ <>(l_pc \in {"returned", "raised"})

C18_Witness ==
  /\ l_pc = "returned"
  /\ l_parallel
  /\ Len(l_sites) = 2
  /\ l_wanted = MaxWanted
  /\ l_sites[1] = "linkedin"
  /\ l_sites[2] = "remoteok"
  /\ l_total = MaxWanted + MaxPage

====
